---- MODULE Spec2Model ----
(***************************************************************************)
(* Model of cmd/config-shard-validator/main.go: the validator that checks  *)
(* that every CI-operator configuration file and every Prow job file is    *)
(* matched by exactly one glob of the config-updater plugin, with the      *)
(* expected ConfigMap name, and that CONFIG_SPEC injections in job specs   *)
(* name the ConfigMap shard that holds the referenced key.                 *)
(*                                                                         *)
(* One run of main() is a sequence of steps: option validation, plugin     *)
(* config load, the walk of the ci-operator config directory, the walk of  *)
(* the job directory (with checkSpec on every job), the nested loop over   *)
(* pathsToCheck and pcfg.ConfigUpdater.Maps, and the final exit.  Go       *)
(* iterates a map in an unspecified order, so the loop over Maps picks     *)
(* any glob that was not visited yet for the current path.                 *)
(***************************************************************************)
EXTENDS Integers, Sequences, FiniteSets, Bags, TLC

VARIABLES
    Maps,           \* pcfg.ConfigUpdater.Maps: glob -> updateConfig
    ciopDir,        \* files under ci-operator/config, in walk order
    jobDir,         \* files under ci-operator/jobs, in walk order
    pc,             \* position of main()
    ciopIdx,        \* next file of ciopDir the walk hands to the callback
    jobIdx,         \* next file of jobDir the walk hands to the callback
    pathsToCheck,   \* main.go:75
    configInfos,    \* main.go:76, Basename -> ConfigMapName of the info
    foundFailures,  \* main.go:87
    pathIdx,        \* index of pathToCheck in the loop of main.go:122
    visited,        \* globs of Maps already ranged over for pathToCheck
    matchesAny,     \* main.go:123
    matchedMap,     \* main.go:124
    log,            \* bag of the logrus entries emitted so far
    fatal,          \* which logrus.Fatal ended the process, "none" if none
    exitCode,       \* process exit status, -1 while running
    run,            \* 1 for the first invocation, 2 for a repeated one
    prevLog,        \* log of the first invocation, once it was repeated
    prevExit        \* exit status of the first invocation

vars == <<Maps, ciopDir, jobDir, pc, ciopIdx, jobIdx, pathsToCheck,
          configInfos, foundFailures, pathIdx, visited, matchesAny,
          matchedMap, log, fatal, exitCode, run, prevLog, prevExit>>

input == <<Maps, ciopDir, jobDir>>
loopVars == <<pathIdx, visited, matchesAny, matchedMap>>
twice == <<run, prevLog, prevExit>>

----------------------------------------------------------------------------
\* Bounds of the model.

MaxRules == 2       \* globs in pcfg.ConfigUpdater.Maps
MaxConfigs == 1     \* files under ci-operator/config
MaxJobFiles == 1    \* files under ci-operator/jobs
MaxEnv == 2         \* env entries of a container

Bundles == {"BundleA", "BundleB"}

SeqsUpTo(S, n) == UNION {[1..k -> S] : k \in 0..n}

----------------------------------------------------------------------------
\* Names the code takes from its imports.

DefaultClusterAlias == "default"

\* Paths relative to releaseRepoDir (the result of filepath.Rel): the
\* directory they are under and the number of the file in it.  n = 0 is
\* the directory itself.
ConfigPath(i) == [dir |-> "ci-operator/config", n |-> i]
JobPath(i) == [dir |-> "ci-operator/jobs", n |-> i]
JobConfigRoot == [dir |-> "ci-operator/jobs", n |-> 0]

\* zglob.Match(pattern, name) for the patterns of the model.  The matcher
\* compiles the pattern first and fails on a malformed one whatever the
\* name is; otherwise it answers whether the name matches.
Globs == {"ci-operator/config/**", "ci-operator/jobs/**", "**/1.yaml", "["}

zglobMatch(glob, name) ==
    CASE glob = "["
           -> [matches |-> FALSE, err |-> TRUE]
      [] glob = "ci-operator/config/**"
           -> [matches |-> (name.dir = "ci-operator/config"), err |-> FALSE]
      [] glob = "ci-operator/jobs/**"
           -> [matches |-> (name.dir = "ci-operator/jobs"), err |-> FALSE]
      [] OTHER
           -> [matches |-> (name.n = 1), err |-> FALSE]

----------------------------------------------------------------------------
\* logrus entries.  Every entry carries the same fields; a field the code
\* does not set holds its zero value.

Entry(level, msg, file, glob, job, container, key, a, b) ==
    [level |-> level, msg |-> msg, file |-> file, glob |-> glob, job |-> job,
     container |-> container, key |-> key, a |-> a, b |-> b]

MsgDefaultAlias == "cluster alias is not allowed"
MsgGlobWarn == "Failed to check glob match."
MsgJobConfigErr == "failed to check if config is a jobconfig"
MsgGzip == "gzip must be enabled for job configs"
MsgMultiple == "File matches glob from more than one ConfigMap"
MsgUnexpected == "File matches glob from unexpected ConfigMap"
MsgUncovered == "Config file does not belong to any auto-updating config."
MsgUnknownKey == "Could not find CI Operator configuration file for that key."
MsgInvalidShard == "Invalid config map shard for injected CI-Operator config key."

PathEntry(level, msg, file) == Entry(level, msg, file, "", 0, 0, 0, "", "")
GlobEntry(level, msg, file, glob, a, b) ==
    Entry(level, msg, file, glob, 0, 0, 0, a, b)
SpecEntry(msg, file, job, container, key, got, expected) ==
    Entry("error", msg, file, "", job, container, key, got, expected)

One(e) == SetToBag({e})
Nothing == [log |-> EmptyBag, failed |-> FALSE]
Failure(e) == [log |-> One(e), failed |-> TRUE]
Both(r, s) == [log |-> r.log (+) s.log, failed |-> (r.failed \/ s.failed)]

RECURSIVE All(_)
All(rs) == IF rs = <<>> THEN Nothing ELSE Both(Head(rs), All(Tail(rs)))

----------------------------------------------------------------------------
\* checkSpec, main.go:168-196.

\* The body of the loop over container.Env, main.go:172-192.  An env
\* entry is [Name, ValueFrom, Key, RefName]: ValueFrom is "nil" for a
\* literal value, "configMapKeyRef" when ValueFrom.ConfigMapKeyRef is set,
\* and names another source otherwise.
checkEnv(env, relPath, name, containerIndex, infos) ==
    IF env.Name = "CONFIG_SPEC" /\ env.ValueFrom = "configMapKeyRef"
    THEN IF env.Key \notin DOMAIN infos
         THEN Failure(SpecEntry(MsgUnknownKey, relPath, name, containerIndex,
                                env.Key, "", ""))
         ELSE IF env.RefName # infos[env.Key]
              THEN Failure(SpecEntry(MsgInvalidShard, relPath, name,
                                     containerIndex, env.Key, env.RefName,
                                     infos[env.Key]))
              ELSE Nothing
    ELSE Nothing

\* checkContainer with a break where the code has a continue: the first
\* failure of a container ends the loop over its env entries.
checkContainerStopsAtFirst(container, relPath, name, containerIndex, infos) ==
    LET r == [e \in 1..Len(container.Env) |->
                 checkEnv(container.Env[e], relPath, name, containerIndex, infos)]
        bad == {e \in 1..Len(container.Env) : r[e].failed}
    IN IF bad = {} THEN Nothing
       ELSE r[CHOOSE e \in bad : \A f \in bad : e <= f]

\* Go numbers the containers from 0.
checkContainer(container, relPath, name, containerIndex, infos) ==
    All([e \in 1..Len(container.Env) |->
            checkEnv(container.Env[e], relPath, name, containerIndex, infos)])

checkSpec(spec, relPath, name, infos) ==
    All([c \in 1..Len(spec.Containers) |->
            checkContainer(spec.Containers[c], relPath, name, c - 1, infos)])

\* The callback of jobconfig.OperateOnJobConfigDir, main.go:92-116: the
\* presubmits, then the postsubmits, then the periodics of the file.
JobsOfKind(jobs, kind) == SelectSeq(jobs, LAMBDA j : j.kind = kind)

JobsInOrder(jobs) ==
    JobsOfKind(jobs, "presubmit") \o JobsOfKind(jobs, "postsubmit")
        \o JobsOfKind(jobs, "periodic")

\* Accumulate as foundFailures = checkSpec(...): the last check decides.
AccumulateOverwrites(found, foundFailure) == foundFailure

\* if foundFailure := checkSpec(...); foundFailure { foundFailures = true }
Accumulate(found, foundFailure) == IF foundFailure THEN TRUE ELSE found

RECURSIVE checkJobs(_, _, _, _)
checkJobs(jobs, relPath, infos, acc) ==
    IF jobs = <<>> THEN acc
    ELSE LET job == Head(jobs)
             r == IF job.hasSpec
                  THEN checkSpec(job.Spec, relPath, job.Name, infos)
                  ELSE Nothing
         IN checkJobs(Tail(jobs), relPath, infos,
                      [log |-> acc.log (+) r.log,
                       failed |-> Accumulate(acc.failed, r.failed)])

----------------------------------------------------------------------------
\* The body of the loop over pcfg.ConfigUpdater.Maps, main.go:126-156.

\* main.go:127-130
defaultClusterCheck(pathToCheck, updateConfig) ==
    IF DefaultClusterAlias \in updateConfig.Clusters
    THEN Failure(PathEntry("error", MsgDefaultAlias, pathToCheck.path))
    ELSE Nothing

\* main.go:133-136: a warning, foundFailures is left alone
globMatchWarning(pathToCheck, glob) ==
    IF zglobMatch(glob, pathToCheck.path).err
    THEN [log |-> One(GlobEntry("warn", MsgGlobWarn, pathToCheck.path, glob,
                                "", "")),
          failed |-> FALSE]
    ELSE Nothing

\* updateConfig.GZIP == nil || !*updateConfig.GZIP, negated
gzipEnabled(updateConfig) == updateConfig.GZIP = "true"

\* jobConfigCheck with the error of the match handled as main.go:134-136
\* handles it: a warning, and no failure.
jobConfigCheckWarnsOnly(pathToCheck, glob, updateConfig) ==
    LET m == zglobMatch(glob, JobConfigRoot)
    IN IF m.err
       THEN [log |-> One(GlobEntry("warn", MsgJobConfigErr, pathToCheck.path,
                                   glob, "", "")),
             failed |-> FALSE]
       ELSE IF m.matches /\ ~gzipEnabled(updateConfig)
            THEN Failure(GlobEntry("error", MsgGzip, pathToCheck.path, glob,
                                   "", ""))
            ELSE Nothing

\* main.go:137-143
jobConfigCheck(pathToCheck, glob, updateConfig) ==
    LET m == zglobMatch(glob, JobConfigRoot)
    IN IF m.err
       THEN Failure(GlobEntry("error", MsgJobConfigErr, pathToCheck.path,
                              glob, "", ""))
       ELSE IF m.matches /\ ~gzipEnabled(updateConfig)
            THEN Failure(GlobEntry("error", MsgGzip, pathToCheck.path, glob,
                                   "", ""))
            ELSE Nothing

\* main.go:145-148
multipleCheck(pathToCheck, glob, any, matched) ==
    IF any
    THEN Failure(GlobEntry("error", MsgMultiple, pathToCheck.path, glob,
                           matched, pathToCheck.configMap))
    ELSE Nothing

\* unexpectedCheck with the two arguments of the message swapped.
unexpectedCheckSwapped(pathToCheck, glob, updateConfig) ==
    IF updateConfig.Name # pathToCheck.configMap
    THEN Failure(GlobEntry("error", MsgUnexpected, pathToCheck.path, glob,
                           pathToCheck.configMap, updateConfig.Name))
    ELSE Nothing

\* main.go:149-152
unexpectedCheck(pathToCheck, glob, updateConfig) ==
    IF updateConfig.Name # pathToCheck.configMap
    THEN Failure(GlobEntry("error", MsgUnexpected, pathToCheck.path, glob,
                           updateConfig.Name, pathToCheck.configMap))
    ELSE Nothing

\* matchCheck with the second test as the else branch of the first: a
\* glob that is not the first to match is not compared with the expected
\* ConfigMap.
matchCheckElseIf(pathToCheck, glob, updateConfig, any, matched) ==
    IF zglobMatch(glob, pathToCheck.path).matches
    THEN IF any
         THEN multipleCheck(pathToCheck, glob, any, matched)
         ELSE unexpectedCheck(pathToCheck, glob, updateConfig)
    ELSE Nothing

\* main.go:144-155, the log lines and the flag
matchCheck(pathToCheck, glob, updateConfig, any, matched) ==
    IF zglobMatch(glob, pathToCheck.path).matches
    THEN Both(multipleCheck(pathToCheck, glob, any, matched),
              unexpectedCheck(pathToCheck, glob, updateConfig))
    ELSE Nothing

\* main.go:154
nextMatchedMap(pathToCheck, updateConfig) == pathToCheck.configMap

\* main.go:157-160
coverageCheck(pathToCheck, any) ==
    IF ~any
    THEN Failure(PathEntry("error", MsgUncovered, pathToCheck.path))
    ELSE Nothing

globBody(pathToCheck, glob, updateConfig, any, matched) ==
    All(<<defaultClusterCheck(pathToCheck, updateConfig),
          globMatchWarning(pathToCheck, glob),
          jobConfigCheck(pathToCheck, glob, updateConfig),
          matchCheck(pathToCheck, glob, updateConfig, any, matched)>>)

----------------------------------------------------------------------------
\* The inputs of a run.

\* The updateConfig of a glob: the ConfigMap name, the cluster aliases and
\* the GZIP flag, a *bool ("nil" when unset).
UpdateConfigs ==
    {[Name |-> b, Clusters |-> t[1], GZIP |-> t[2]] :
        b \in Bundles,
        t \in {<<{}, "true">>, <<{DefaultClusterAlias}, "nil">>, <<{}, "false">>}}

RuleSets ==
    UNION {[S -> UpdateConfigs] :
             S \in {T \in SUBSET Globs : Cardinality(T) <= MaxRules}}

FixedRules ==
    [g \in {"ci-operator/config/**", "ci-operator/jobs/**"} |->
        [Name |-> IF g = "ci-operator/config/**" THEN "BundleA" ELSE "BundleB",
         Clusters |-> {}, GZIP |-> "true"]]

\* The files of ci-operator/config: file i has the key i as its basename.
CiopDirs ==
    UNION {{[i \in 1..k |-> [Filename |-> ConfigPath(i),
                             ConfigMapName |-> m[i],
                             Basename |-> i]] : m \in [1..k -> Bundles]} :
             k \in 0..MaxConfigs}

Keys == 1..(MaxConfigs + 1)

ConfigMapKeyRef(name, key, refName) ==
    [Name |-> name, ValueFrom |-> "configMapKeyRef", Key |-> key,
     RefName |-> refName]

EnvVars ==
    {[Name |-> "CONFIG_SPEC", ValueFrom |-> v, Key |-> 0, RefName |-> ""] :
        v \in {"nil", "secretKeyRef"}}
    \cup {ConfigMapKeyRef("CONFIG_SPEC", k, b) : k \in Keys, b \in Bundles}
    \cup {ConfigMapKeyRef("OTHER", MaxConfigs + 1, "BundleB")}

Job(kind, name, hasSpec, containers) ==
    [kind |-> kind, Name |-> name, hasSpec |-> hasSpec,
     Spec |-> [Containers |-> containers]]

JobKinds == {"presubmit", "postsubmit", "periodic"}

\* A file with two jobs: the first injects key 1 from BundleA, the second
\* has nothing to check.
SampleJobs ==
    <<Job("presubmit", 1, TRUE,
          <<[Env |-> <<ConfigMapKeyRef("CONFIG_SPEC", 1, "BundleA")>>]>>),
      Job("periodic", 2, TRUE,
          <<[Env |-> <<ConfigMapKeyRef("OTHER", 1, "BundleB")>>]>>)>>

\* A file with one job of any kind: without a Spec, or with the env
\* entries in the first or in the second container.
WideJobs ==
    {<<Job(k, 1, FALSE, <<>>)>> : k \in JobKinds}
    \cup {<<Job(k, 1, TRUE, <<[Env |-> e]>>)>> :
             k \in JobKinds, e \in SeqsUpTo(EnvVars, MaxEnv)}
    \cup {<<Job(k, 1, TRUE, <<[Env |-> <<>>], [Env |-> e]>>)>> :
             k \in JobKinds, e \in SeqsUpTo(EnvVars, MaxEnv)}

JobFile(i, jobs) ==
    [Filename |-> JobPath(i), ConfigMapName |-> "BundleB", jobs |-> jobs]

SampleJobDirs ==
    {[i \in 1..k |-> JobFile(i, SampleJobs)] : k \in 0..MaxJobFiles}

WideJobDirs == {<<JobFile(1, jobs)>> : jobs \in WideJobs}

Options == [releaseRepoDir : {"", "release"}, logLevel : {"info", "bogus"}]

----------------------------------------------------------------------------
\* The state of the process when main() starts.

Start ==
    /\ pc = "options"
    /\ ciopIdx = 1
    /\ jobIdx = 1
    /\ pathsToCheck = <<>>
    /\ configInfos = <<>>
    /\ foundFailures = FALSE
    /\ pathIdx = 1
    /\ visited = {}
    /\ matchesAny = FALSE
    /\ matchedMap = ""
    /\ log = EmptyBag
    /\ fatal = "none"
    /\ exitCode = -1

FirstRun ==
    /\ run = 1
    /\ prevLog = EmptyBag
    /\ prevExit = -1

\* Any rule set with a fixed content of the job files, or the fixed rule
\* set with any content of one job file.
Init ==
    /\ \/ /\ Maps \in RuleSets
          /\ jobDir \in SampleJobDirs
       \/ /\ Maps = FixedRules
          /\ jobDir \in WideJobDirs
    /\ ciopDir \in CiopDirs
    /\ Start
    /\ FirstRun

----------------------------------------------------------------------------
\* The steps of main().

\* logrus.Fatal logs and calls os.Exit(1).
Fatal(which) ==
    /\ pc' = "exited"
    /\ fatal' = which
    /\ exitCode' = 1

\* main.go:31-42
Validate(o) ==
    IF o.releaseRepoDir = "" THEN "required flag --release-repo-dir was unset"
    ELSE IF o.logLevel # "info" THEN "invalid --log-level"
    ELSE "nil"

\* main.go:64-67
ValidateOptions ==
    /\ pc = "options"
    /\ \E o \in Options :
          IF Validate(o) # "nil"
          THEN Fatal("options")
          ELSE pc' = "plugins" /\ UNCHANGED <<fatal, exitCode>>
    /\ UNCHANGED <<input, ciopIdx, jobIdx, pathsToCheck, configInfos,
                   foundFailures, loopVars, log, twice>>

\* main.go:69-73: pluginAgent.Load succeeds or fails
LoadPlugins ==
    /\ pc = "plugins"
    /\ \E loaded \in BOOLEAN :
          IF loaded
          THEN pc' = "ciop" /\ UNCHANGED <<fatal, exitCode>>
          ELSE Fatal("plugins")
    /\ UNCHANGED <<input, ciopIdx, jobIdx, pathsToCheck, configInfos,
                   foundFailures, loopVars, log, twice>>

Put(m, k, v) == [x \in DOMAIN m \cup {k} |-> IF x = k THEN v ELSE m[x]]

\* main.go:77-83: the callback on the next file of ci-operator/config
VisitCiopConfig ==
    /\ pc = "ciop"
    /\ ciopIdx <= Len(ciopDir)
    /\ LET info == ciopDir[ciopIdx]
       IN /\ pathsToCheck' =
                Append(pathsToCheck,
                       [path |-> info.Filename, configMap |-> info.ConfigMapName])
          /\ configInfos' = Put(configInfos, info.Basename, info.ConfigMapName)
    /\ ciopIdx' = ciopIdx + 1
    /\ UNCHANGED <<input, pc, jobIdx, foundFailures, loopVars, log, fatal,
                   exitCode, twice>>

\* main.go:77, 83: OperateOnCIOperatorConfigDir returns nil
CiopConfigsLoaded ==
    /\ pc = "ciop"
    /\ ciopIdx > Len(ciopDir)
    /\ pc' = "jobs"
    /\ UNCHANGED <<input, ciopIdx, jobIdx, pathsToCheck, configInfos,
                   foundFailures, loopVars, log, fatal, exitCode, twice>>

\* main.go:83-85: the walk fails on the directory or on one of its files
CiopLoadError ==
    /\ pc = "ciop"
    /\ Fatal("ciop")
    /\ UNCHANGED <<input, ciopIdx, jobIdx, pathsToCheck, configInfos,
                   foundFailures, loopVars, log, twice>>

\* main.go:88-117: the callback on the next file of ci-operator/jobs
VisitJobConfig ==
    /\ pc = "jobs"
    /\ jobIdx <= Len(jobDir)
    /\ LET info == jobDir[jobIdx]
           r == checkJobs(JobsInOrder(info.jobs), info.Filename, configInfos,
                          [log |-> log, failed |-> foundFailures])
       IN /\ pathsToCheck' =
                Append(pathsToCheck,
                       [path |-> info.Filename, configMap |-> info.ConfigMapName])
          /\ log' = r.log
          /\ foundFailures' = r.failed
    /\ jobIdx' = jobIdx + 1
    /\ UNCHANGED <<input, pc, ciopIdx, configInfos, loopVars, fatal, exitCode,
                   twice>>

\* main.go:88, 118: OperateOnJobConfigDir returns nil
JobConfigsLoaded ==
    /\ pc = "jobs"
    /\ jobIdx > Len(jobDir)
    /\ pc' = "partition"
    /\ UNCHANGED <<input, ciopIdx, jobIdx, pathsToCheck, configInfos,
                   foundFailures, loopVars, log, fatal, exitCode, twice>>

\* main.go:118-120
JobLoadError ==
    /\ pc = "jobs"
    /\ Fatal("jobs")
    /\ UNCHANGED <<input, ciopIdx, jobIdx, pathsToCheck, configInfos,
                   foundFailures, loopVars, log, twice>>

\* main.go:126-156: one iteration of the loop over Maps for pathToCheck
CheckGlob(glob) ==
    /\ pc = "partition"
    /\ pathIdx <= Len(pathsToCheck)
    /\ glob \in DOMAIN Maps \ visited
    /\ LET pathToCheck == pathsToCheck[pathIdx]
           updateConfig == Maps[glob]
           r == globBody(pathToCheck, glob, updateConfig, matchesAny, matchedMap)
           matches == zglobMatch(glob, pathToCheck.path).matches
       IN /\ log' = log (+) r.log
          /\ foundFailures' = Accumulate(foundFailures, r.failed)
          /\ matchesAny' = (matchesAny \/ matches)
          /\ matchedMap' = IF matches
                           THEN nextMatchedMap(pathToCheck, updateConfig)
                           ELSE matchedMap
    /\ visited' = visited \cup {glob}
    /\ UNCHANGED <<input, pc, ciopIdx, jobIdx, pathsToCheck, configInfos,
                   pathIdx, fatal, exitCode, twice>>

\* NextPath with matchesAny and matchedMap declared outside the loop over
\* the paths: they keep their values for the next path.
NextPathKeepsMatch ==
    /\ pc = "partition"
    /\ pathIdx <= Len(pathsToCheck)
    /\ visited = DOMAIN Maps
    /\ LET r == coverageCheck(pathsToCheck[pathIdx], matchesAny)
       IN /\ log' = log (+) r.log
          /\ foundFailures' = Accumulate(foundFailures, r.failed)
    /\ pathIdx' = pathIdx + 1
    /\ visited' = {}
    /\ UNCHANGED <<input, pc, ciopIdx, jobIdx, pathsToCheck, configInfos,
                   matchesAny, matchedMap, fatal, exitCode, twice>>

\* NextPath with a logrus.Fatal where the code logs the coverage failure:
\* the first path that no glob matches ends the run.
NextPathFailFast ==
    /\ pc = "partition"
    /\ pathIdx <= Len(pathsToCheck)
    /\ visited = DOMAIN Maps
    /\ LET r == coverageCheck(pathsToCheck[pathIdx], matchesAny)
       IN /\ log' = log (+) r.log
          /\ foundFailures' = Accumulate(foundFailures, r.failed)
          /\ IF r.failed
             THEN Fatal("final") /\ UNCHANGED loopVars
             ELSE /\ pathIdx' = pathIdx + 1
                  /\ visited' = {}
                  /\ matchesAny' = FALSE
                  /\ matchedMap' = ""
                  /\ UNCHANGED <<pc, fatal, exitCode>>
    /\ UNCHANGED <<input, ciopIdx, jobIdx, pathsToCheck, configInfos, twice>>

\* main.go:157-161 and 122-125: the loop over Maps is over; the coverage
\* check, then the next pathToCheck with fresh matchesAny and matchedMap
NextPath ==
    /\ pc = "partition"
    /\ pathIdx <= Len(pathsToCheck)
    /\ visited = DOMAIN Maps
    /\ LET r == coverageCheck(pathsToCheck[pathIdx], matchesAny)
       IN /\ log' = log (+) r.log
          /\ foundFailures' = Accumulate(foundFailures, r.failed)
    /\ pathIdx' = pathIdx + 1
    /\ visited' = {}
    /\ matchesAny' = FALSE
    /\ matchedMap' = ""
    /\ UNCHANGED <<input, pc, ciopIdx, jobIdx, pathsToCheck, configInfos,
                   fatal, exitCode, twice>>

\* main.go:163-166
Finish ==
    /\ pc = "partition"
    /\ pathIdx > Len(pathsToCheck)
    /\ IF foundFailures
       THEN Fatal("final")
       ELSE pc' = "exited" /\ exitCode' = 0 /\ UNCHANGED fatal
    /\ UNCHANGED <<input, ciopIdx, jobIdx, pathsToCheck, configInfos,
                   foundFailures, loopVars, log, twice>>

Next ==
    \/ ValidateOptions
    \/ LoadPlugins
    \/ VisitCiopConfig
    \/ CiopConfigsLoaded
    \/ CiopLoadError
    \/ VisitJobConfig
    \/ JobConfigsLoaded
    \/ JobLoadError
    \/ \E glob \in Globs : CheckGlob(glob)
    \/ NextPath
    \/ Finish

Spec == Init /\ [][Next]_vars

\* The validator is run again on the same release repository: a new
\* process, with the outcome of the first one kept for comparison.
Rerun ==
    /\ pc = "exited"
    /\ ~(fatal \in {"options", "plugins", "ciop", "jobs"})
    /\ run = 1
    /\ run' = 2
    /\ prevLog' = log
    /\ prevExit' = exitCode
    /\ pc' = "options"
    /\ ciopIdx' = 1
    /\ jobIdx' = 1
    /\ pathsToCheck' = <<>>
    /\ configInfos' = <<>>
    /\ foundFailures' = FALSE
    /\ pathIdx' = 1
    /\ visited' = {}
    /\ matchesAny' = FALSE
    /\ matchedMap' = ""
    /\ log' = EmptyBag
    /\ fatal' = "none"
    /\ exitCode' = -1
    /\ UNCHANGED input

InitTwice ==
    /\ Maps \in RuleSets
    /\ jobDir \in SampleJobDirs
    /\ ciopDir \in CiopDirs
    /\ Start
    /\ FirstRun

NextTwice == Next \/ Rerun

SpecTwice == InitTwice /\ [][NextTwice]_vars

----------------------------------------------------------------------------
\* What the properties below speak of.

Exited == pc = "exited"
LoadError == fatal \in {"options", "plugins", "ciop", "jobs"}
Completed == Exited /\ ~LoadError

Logged == BagToSet(log)
Failures == {e \in Logged : e.level = "error"}
FailuresOf(msg) == {e \in Failures : e.msg = msg}

\* The discovered files, in the order main() appends them.
Discovered ==
    [i \in 1..Len(ciopDir) |->
        [path |-> ciopDir[i].Filename, configMap |-> ciopDir[i].ConfigMapName]]
    \o [i \in 1..Len(jobDir) |->
        [path |-> jobDir[i].Filename, configMap |-> jobDir[i].ConfigMapName]]

\* The paths whose iteration of the loop of main.go:122 is over.
Checked == 1..(pathIdx - 1)

Malformed(glob) == zglobMatch(glob, JobConfigRoot).err
Matching(path) == {g \in DOMAIN Maps : zglobMatch(g, path).matches}
CoversJobs(glob) == zglobMatch(glob, JobConfigRoot).matches

\* The index of all configuration files: key -> ConfigMap name.
IndexKeys == {ciopDir[i].Basename : i \in 1..Len(ciopDir)}
IndexBundle(key) ==
    ciopDir[CHOOSE i \in 1..Len(ciopDir) : ciopDir[i].Basename = key].ConfigMapName

IsInjection(env) == env.Name = "CONFIG_SPEC" /\ env.ValueFrom = "configMapKeyRef"

\* The places of the env entries of the job files already walked: file,
\* job, container and entry (a file of the model has at most two jobs and
\* a job at most two containers).
EnvPlaces ==
    {<<f, j, c, e>> \in (1..(jobIdx - 1)) \X {1, 2} \X {1, 2} \X (1..MaxEnv) :
        /\ f <= Len(jobDir)
        /\ j <= Len(jobDir[f].jobs)
        /\ jobDir[f].jobs[j].hasSpec
        /\ c <= Len(jobDir[f].jobs[j].Spec.Containers)
        /\ e <= Len(jobDir[f].jobs[j].Spec.Containers[c].Env)}

EnvAt(pl) == jobDir[pl[1]].jobs[pl[2]].Spec.Containers[pl[3]].Env[pl[4]]

\* The entry checkSpec is to log for the env entry at a place: its fields
\* without the message and the two values.
SpecEntryAt(pl, msg, got, expected) ==
    SpecEntry(msg, jobDir[pl[1]].Filename, jobDir[pl[1]].jobs[pl[2]].Name,
              pl[3] - 1, EnvAt(pl).Key, got, expected)

UnknownAt(pl) == SpecEntryAt(pl, MsgUnknownKey, "", "")
InvalidAt(pl) ==
    SpecEntryAt(pl, MsgInvalidShard, EnvAt(pl).RefName, IndexBundle(EnvAt(pl).Key))

IsUnknown(pl) == IsInjection(EnvAt(pl)) /\ EnvAt(pl).Key \notin IndexKeys
IsInvalid(pl) ==
    /\ IsInjection(EnvAt(pl))
    /\ EnvAt(pl).Key \in IndexKeys
    /\ IndexBundle(EnvAt(pl).Key) # EnvAt(pl).RefName

----------------------------------------------------------------------------
\* C9 (injection consistency): once a job file was walked, the log holds,
\* for each of its CONFIG_SPEC entries with a ConfigMap key reference,
\* exactly one "unknown key" failure when the key is not in the index of
\* all configuration files, exactly one "invalid shard" failure with the
\* referenced and the indexed ConfigMap name when the two differ, and
\* nothing otherwise; no other env entry logs a failure; and the index
\* checkSpec reads holds every configuration file.
C9_InjectionConsistency ==
    /\ \A pl \in EnvPlaces :
          /\ IsUnknown(pl) =>
                CopiesIn(UnknownAt(pl), log) =
                    Cardinality({q \in EnvPlaces : IsUnknown(q) /\ UnknownAt(q) = UnknownAt(pl)})
          /\ IsInvalid(pl) =>
                CopiesIn(InvalidAt(pl), log) =
                    Cardinality({q \in EnvPlaces : IsInvalid(q) /\ InvalidAt(q) = InvalidAt(pl)})
    /\ \A e \in FailuresOf(MsgUnknownKey) :
          \E pl \in EnvPlaces : IsUnknown(pl) /\ e = UnknownAt(pl)
    /\ \A e \in FailuresOf(MsgInvalidShard) :
          \E pl \in EnvPlaces : IsInvalid(pl) /\ e = InvalidAt(pl)
    /\ pc \in {"jobs", "partition"} =>
          /\ DOMAIN configInfos = IndexKeys
          /\ \A k \in IndexKeys : configInfos[k] = IndexBundle(k)

\* A run whose job file injects a key that is not in the index and a key
\* that the index has under another ConfigMap, both logged.
C9_Witness ==
    /\ Exited
    /\ \E pl, q \in EnvPlaces :
          /\ IsUnknown(pl) /\ UnknownAt(pl) \in Failures
          /\ IsInvalid(q) /\ InvalidAt(q) \in Failures

----------------------------------------------------------------------------
\* The failures of the partition check, as the code words them.

Uncovered(p) == PathEntry("error", MsgUncovered, p.path)
Unexpected(p, glob) ==
    GlobEntry("error", MsgUnexpected, p.path, glob, Maps[glob].Name, p.configMap)
PartitionFailuresFor(path) ==
    {e \in Failures : e.file = path
                      /\ e.msg \in {MsgUncovered, MsgMultiple, MsgUnexpected}}

\* C7 (coverage): a path whose loop over the globs is over has exactly one
\* coverage failure when no glob matches it and none when a glob does, and
\* every coverage failure in the log is of such a path.
C7_Coverage ==
    /\ \A i \in Checked :
          CopiesIn(Uncovered(pathsToCheck[i]), log) =
              IF Matching(pathsToCheck[i].path) = {} THEN 1 ELSE 0
    /\ \A e \in FailuresOf(MsgUncovered) :
          \E i \in Checked : /\ e = Uncovered(pathsToCheck[i])
                             /\ Matching(pathsToCheck[i].path) = {}

\* A finished run with a path no glob matches, checked after a path that
\* a glob matches.
C7_Witness ==
    /\ Completed
    /\ \E i, j \in Checked :
          /\ i < j
          /\ Matching(pathsToCheck[i].path) # {}
          /\ Matching(pathsToCheck[j].path) = {}

\* A glob that matches a checked path has one mismatch failure, with its
\* ConfigMap name and the expected one, when the two differ, and none when
\* they are the same.
C8_Mismatch ==
    \A i \in Checked :
       LET p == pathsToCheck[i]
       IN \A g \in Matching(p.path) :
             CopiesIn(Unexpected(p, g), log) =
                 IF Maps[g].Name # p.configMap THEN 1 ELSE 0

\* Every mismatch failure in the log is that of a path and a glob that
\* matches it, and carries two different names.
C8_MismatchOnlyThere ==
    \A e \in FailuresOf(MsgUnexpected) :
       \E i \in 1..Len(pathsToCheck) :
          /\ i <= pathIdx
          /\ e.file = pathsToCheck[i].path
          /\ e.glob \in Matching(e.file)
          /\ e = Unexpected(pathsToCheck[i], e.glob)
          /\ e.a # e.b

SingleExpectedMatch(p) ==
    \E g \in DOMAIN Maps : Matching(p.path) = {g} /\ Maps[g].Name = p.configMap

\* C8 (correctness), as first stated: a mismatch failure with both names
\* for a matching glob exactly when its ConfigMap name is not the expected
\* one, and no failure at all logged for a path whose single matching glob
\* has the expected name.
C8_Original ==
    /\ C8_Mismatch
    /\ C8_MismatchOnlyThere
    /\ \A i \in Checked :
          SingleExpectedMatch(pathsToCheck[i]) =>
              {e \in Failures : e.file = pathsToCheck[i].path} = {}

\* C8, amended: as above, but a path whose single matching glob has the
\* expected name has no coverage, uniqueness or mismatch failure; the
\* failures of the globs themselves (default alias, gzip, job-config
\* check) are still logged under that path.
C8_Correctness ==
    /\ C8_Mismatch
    /\ C8_MismatchOnlyThere
    /\ \A i \in Checked :
          SingleExpectedMatch(pathsToCheck[i]) =>
              PartitionFailuresFor(pathsToCheck[i].path) = {}

\* A finished run with a path matched by one glob of the expected name and
\* a path matched by one glob of another name.
C8_Witness ==
    /\ Completed
    /\ \E i, j \in Checked :
          /\ SingleExpectedMatch(pathsToCheck[i])
          /\ \E g \in DOMAIN Maps :
                /\ Matching(pathsToCheck[j].path) = {g}
                /\ Maps[g].Name # pathsToCheck[j].configMap

----------------------------------------------------------------------------
\* What the inputs are to make the run log.

\* The failures the loop body of main.go:126-156 is to log for a path and
\* a glob, whatever the order of the globs.
DefaultAlias(p) == PathEntry("error", MsgDefaultAlias, p.path)
JobConfigErr(p, glob) == GlobEntry("error", MsgJobConfigErr, p.path, glob, "", "")
Gzip(p, glob) == GlobEntry("error", MsgGzip, p.path, glob, "", "")
GlobWarning(p, glob) == GlobEntry("warn", MsgGlobWarn, p.path, glob, "", "")

DefaultAliasGlobs == {g \in DOMAIN Maps : DefaultClusterAlias \in Maps[g].Clusters}
UncompressedJobGlobs ==
    {g \in DOMAIN Maps : ~Malformed(g) /\ CoversJobs(g) /\ Maps[g].GZIP # "true"}
MalformedGlobs == {g \in DOMAIN Maps : Malformed(g)}

AllPlaces ==
    {<<f, j, c, e>> \in (1..Len(jobDir)) \X {1, 2} \X {1, 2} \X (1..MaxEnv) :
        /\ j <= Len(jobDir[f].jobs)
        /\ jobDir[f].jobs[j].hasSpec
        /\ c <= Len(jobDir[f].jobs[j].Spec.Containers)
        /\ e <= Len(jobDir[f].jobs[j].Spec.Containers[c].Env)}

\* C10 (accumulation before exit): a run without a load error exits only
\* after the walk of both directories and the loop over every path and
\* every glob are over, with every violation of the input in the log:
\* those of every injection and, for every path, the coverage, mismatch
\* and uniqueness failures and the failures of every glob.
C10_AllChecksBeforeExit ==
    Completed =>
       /\ pathsToCheck = Discovered
       /\ jobIdx = Len(jobDir) + 1
       /\ pathIdx = Len(Discovered) + 1
       /\ \A pl \in AllPlaces :
             /\ IsUnknown(pl) => UnknownAt(pl) \in Failures
             /\ IsInvalid(pl) => InvalidAt(pl) \in Failures
       /\ \A i \in 1..Len(Discovered) :
             LET p == Discovered[i]
             IN /\ Matching(p.path) = {} => Uncovered(p) \in Failures
                /\ Cardinality(Matching(p.path)) > 1 =>
                      \E e \in FailuresOf(MsgMultiple) : e.file = p.path
                /\ CopiesIn(DefaultAlias(p), log) = Cardinality(DefaultAliasGlobs)
                /\ \A g \in DOMAIN Maps :
                      /\ (g \in Matching(p.path) /\ Maps[g].Name # p.configMap)
                            => Unexpected(p, g) \in Failures
                      /\ g \in UncompressedJobGlobs => Gzip(p, g) \in Failures
                      /\ g \in MalformedGlobs => JobConfigErr(p, g) \in Failures
       /\ (Failures # {}) = (fatal = "final")

\* A run that logged a failure of checkSpec, went on to log failures for
\* the first and for the second path, and only then failed.
C10_Witness ==
    /\ Completed
    /\ fatal = "final"
    /\ Len(pathsToCheck) > 1
    /\ FailuresOf(MsgUnknownKey) \cup FailuresOf(MsgInvalidShard) # {}
    /\ \E e, f \in Failures :
          /\ e.file = pathsToCheck[1].path
          /\ f.file = pathsToCheck[2].path
          /\ e.glob # "" /\ f.glob # ""

----------------------------------------------------------------------------
\* An input without a violation, but for a malformed glob.
PartitionClean == \A i \in 1..Len(Discovered) : SingleExpectedMatch(Discovered[i])
RulesClean == DefaultAliasGlobs = {} /\ UncompressedJobGlobs = {}
InjectionClean == \A pl \in AllPlaces : ~IsUnknown(pl) /\ ~IsInvalid(pl)
CleanInput == PartitionClean /\ RulesClean /\ InjectionClean

\* For a path and a malformed glob the match fails with a warning, and the
\* glob takes no part in the coverage, uniqueness and mismatch checks,
\* which go by the other globs.
MalformedIsNoMatch ==
    /\ \A i \in Checked : \A g \in MalformedGlobs :
          CopiesIn(GlobWarning(pathsToCheck[i], g), log) = 1
    /\ \A e \in FailuresOf(MsgMultiple) \cup FailuresOf(MsgUnexpected) :
          e.glob \notin MalformedGlobs
    /\ \A i \in Checked :
          (Uncovered(pathsToCheck[i]) \in Failures) =
              (\A g \in DOMAIN Maps \ MalformedGlobs :
                  ~zglobMatch(g, pathsToCheck[i].path).matches)

\* C4 (malformed glob), as first stated: the malformed glob only warns,
\* and a run whose paths the other globs cover correctly and uniquely logs
\* no failure and exits 0.
C4_Original ==
    /\ MalformedIsNoMatch
    /\ (Completed /\ CleanInput) => (Failures = {} /\ exitCode = 0)

\* C4, amended: the failed match of a path only warns and the other globs
\* are still checked, but main.go:137 matches the same glob against
\* "ci-operator/jobs", and that error is logged as a failure once for
\* every path: a run whose paths the other globs cover correctly and
\* uniquely logs these failures only, and exits 0 exactly when there is no
\* malformed glob or no path at all.
C4_MalformedGlob ==
    /\ MalformedIsNoMatch
    /\ \A i \in Checked : \A g \in MalformedGlobs :
          CopiesIn(JobConfigErr(pathsToCheck[i], g), log) = 1
    /\ (Completed /\ CleanInput) =>
          /\ \A e \in Failures : e.msg = MsgJobConfigErr
          /\ (exitCode = 0) = (MalformedGlobs = {} \/ Discovered = <<>>)

\* A run with a malformed glob whose path the other glob covers as
\* expected, and that failed.
C4_Witness ==
    /\ Completed
    /\ CleanInput
    /\ MalformedGlobs # {}
    /\ Discovered # <<>>
    /\ exitCode = 1

----------------------------------------------------------------------------
\* The kinds of validation failure that C1 lists.
ListedFailures ==
    {e \in Failures :
        e.msg \in {MsgUncovered, MsgMultiple, MsgUnexpected, MsgDefaultAlias,
                   MsgGzip, MsgUnknownKey, MsgInvalidShard}}

\* C1 (exit status), as first stated: exit 0 exactly without a load error
\* and without a listed failure, and every listed failure ends in the
\* final logrus.Fatal.
C1_Original ==
    Exited =>
       /\ (exitCode = 0) = (~LoadError /\ ListedFailures = {})
       /\ ListedFailures # {} => fatal = "final"

ExitStatus ==
    /\ foundFailures = (Failures # {})
    /\ ~Exited => exitCode = -1 /\ fatal = "none"
    /\ Exited =>
          /\ exitCode \in {0, 1}
          /\ (exitCode = 0) = (~LoadError /\ Failures = {})
          /\ Failures # {} => exitCode = 1 /\ (LoadError \/ fatal = "final")
          /\ fatal = "final" => Failures # {}

\* C1, amended: foundFailures is set exactly when a failure was logged (a
\* listed one or the failed job-config check of a malformed glob) and is
\* never reset within a run; the process exits 0 exactly without a load
\* error and without a logged failure; a logged failure ends in a non-zero
\* exit, by the final logrus.Fatal unless a load error of the job
\* directory ended the run before it.
C1_ExitStatus ==
    /\ []ExitStatus
    /\ [][foundFailures => foundFailures']_vars

\* A run that logged a failure of checkSpec and a failure of the partition
\* check and ended in the final logrus.Fatal.
C1_Witness ==
    /\ Exited
    /\ fatal = "final"
    /\ exitCode = 1
    /\ FailuresOf(MsgUnknownKey) # {}
    /\ FailuresOf(MsgUncovered) # {}

----------------------------------------------------------------------------
\* C2 (uniqueness), as stated: a path that two globs match has a uniqueness
\* failure, and every uniqueness failure names the ConfigMap of the glob
\* that matched first and the ConfigMap of the glob it is logged for.
C2_Original ==
    /\ \A i \in Checked :
          Cardinality(Matching(pathsToCheck[i].path)) > 1 =>
              \E e \in FailuresOf(MsgMultiple) : e.file = pathsToCheck[i].path
    /\ \A e \in FailuresOf(MsgMultiple) :
          \E g \in Matching(e.file) \ {e.glob} :
             /\ e.a = Maps[g].Name
             /\ e.b = Maps[e.glob].Name

\* A path matched by two globs of the same ConfigMap, which is not the
\* one the path is expected in.
C2_Witness ==
    /\ Completed
    /\ \E i \in Checked : \E g, h \in Matching(pathsToCheck[i].path) :
          /\ g # h
          /\ Maps[g].Name = Maps[h].Name
          /\ Maps[g].Name # pathsToCheck[i].configMap

\* C3 (no default alias), as stated: a run without a load error whose
\* rule set has a glob with the default cluster alias logs a failure and
\* exits non-zero, whatever the paths are.
C3_Original ==
    (Completed /\ DefaultAliasGlobs # {}) =>
        /\ FailuresOf(MsgDefaultAlias) # {}
        /\ exitCode # 0

\* C6 (gzip of job configs), as stated: a run without a load error logs a
\* gzip failure for a glob exactly when the glob matches
\* "ci-operator/jobs" and its GZIP flag is unset or false, whatever the
\* paths are.
C6_Original ==
    Completed =>
        \A g \in DOMAIN Maps :
           (\E e \in FailuresOf(MsgGzip) : e.glob = g) = (g \in UncompressedJobGlobs)

----------------------------------------------------------------------------
\* Two runs on the same input (SpecTwice).

PrevFailures == {e \in BagToSet(prevLog) : e.level = "error"}
BothDone == run = 2 /\ Completed

\* C5 (idempotence), as first stated: the second run logs the same set of
\* failures, with the same paths, globs and ConfigMap names, and exits
\* with the same status, whatever the order of the globs in each run.
C5_Original ==
    BothDone => (Failures = PrevFailures /\ exitCode = prevExit)

\* A uniqueness failure without the glob it is logged under.
WithoutGlob(e) == IF e.msg = MsgMultiple THEN [e EXCEPT !.glob = ""] ELSE e

\* C5, amended: the two runs exit with the same status and log the same
\* failures as often, but for the glob of a uniqueness failure: it is
\* logged under the matching glob that the run comes to second, so the two
\* runs agree on the path, the two names and the number of uniqueness
\* failures of a path, and may differ on the glob.
C5_Idempotence ==
    BothDone =>
       /\ exitCode = prevExit
       /\ \A e \in Failures \cup PrevFailures :
             e.msg # MsgMultiple => CopiesIn(e, log) = CopiesIn(e, prevLog)
       /\ {WithoutGlob(e) : e \in Failures} = {WithoutGlob(e) : e \in PrevFailures}
       /\ \A i \in 1..Len(pathsToCheck) :
             Cardinality({e \in Failures : e.msg = MsgMultiple
                                           /\ e.file = pathsToCheck[i].path})
             = Cardinality({e \in PrevFailures : e.msg = MsgMultiple
                                                 /\ e.file = pathsToCheck[i].path})

\* Two finished runs that ranged over two matching globs in the two
\* orders: the uniqueness failure of the path is under another glob.
C5_Witness ==
    /\ BothDone
    /\ fatal = "final"
    /\ \E e \in Failures, f \in PrevFailures :
          /\ e.msg = MsgMultiple /\ f.msg = MsgMultiple
          /\ e.file = f.file
          /\ e.glob # f.glob

====
